---- MODULE Spec2Model ----
(***************************************************************************)
(* Model of the mcp25xx driver: identifier and frame codecs, the SPI       *)
(* command protocol and the transmit / receive buffer arbitration.         *)
(***************************************************************************)
EXTENDS Integers, Sequences, FiniteSets, TLC

VARIABLES
    feature,    \* TRUE when built with the mcp2515 / mcp25625 feature
    chip,       \* controller flags and receive buffers
    call,       \* the last driver call and its arguments
    wire,       \* bus events of the last driver call
    ret,        \* what the last driver call returned
    cin,        \* codec input (identifier and data)
    chdr,       \* IdHeader built from cin (idheader.rs)
    cid,        \* identifier read back from chdr
    cfrm,       \* frame built or decoded from cin (frame.rs)
    cfid,       \* identifier read back from cfrm
    cdec,       \* frame decoded from the bytes of cfrm
    rin,        \* register codec input (register type and byte)
    rval,       \* register value decoded from rin
    rbyte,      \* byte encoded from rval
    tin,        \* bit-timing input (oscillator and preset triple)
    tcnf,       \* CNF built from tin
    tseg        \* segment lengths computed from tcnf

vars == <<feature, chip, call, wire, ret, cin, chdr, cid, cfrm, cfid, cdec, rin, rval, rbyte,
         tin, tcnf, tseg>>
drvVars == <<feature, chip, call, wire, ret>>
regVars == <<rin, rval, rbyte, tin, tcnf, tseg>>
codecVars == <<cin, chdr, cid, cfrm, cfid, cdec, rin, rval, rbyte, tin, tcnf, tseg>>

Nil == [nil |-> TRUE]

(***************************************************************************)
(* Fixed-width integer arithmetic.                                         *)
(***************************************************************************)
Pow2(n) == 2 ^ n

U8(x) == x % 256

Shr(x, n) == x \div Pow2(n)

Shl8(x, n) == (x * Pow2(n)) % 256

Shl16(x, n) == (x * Pow2(n)) % 65536

\* u32 shift of a byte by at most 21 places: the result has at most 29 bits
Shl32(x, n) == x * Pow2(n)

RECURSIVE BitAnd(_, _)
BitAnd(a, b) ==
    IF a = 0 \/ b = 0 THEN 0
    ELSE (a % 2) * (b % 2) + 2 * BitAnd(a \div 2, b \div 2)

RECURSIVE BitOr(_, _)
BitOr(a, b) ==
    IF a = 0 THEN b
    ELSE IF b = 0 THEN a
    ELSE (IF a % 2 = 1 \/ b % 2 = 1 THEN 1 ELSE 0) + 2 * BitOr(a \div 2, b \div 2)

Bit(x, n) == (x \div Pow2(n)) % 2 = 1

(***************************************************************************)
(* Identifiers (embedded_can::Id): Standard(11 bit) or Extended(29 bit).   *)
(***************************************************************************)
StdMax == 2047

ExtMax == 536870911

Standard(raw) == [ext |-> FALSE, raw |-> raw]

Extended(raw) == [ext |-> TRUE, raw |-> raw]

Panic == [panic |-> TRUE]

(***************************************************************************)
(* idheader.rs: the public IdHeader.                                       *)
(***************************************************************************)
IdHeader_from_standard_lowbits(raw) ==
    [sidh |-> U8(Shr(raw, 3)),
     sidl |-> Shl8(BitAnd(U8(raw), 3), 5),
     eid8 |-> 0,
     eid0 |-> 0]

IdHeader_from_standard(raw) ==
    [sidh |-> U8(Shr(raw, 3)),
     sidl |-> Shl8(BitAnd(U8(raw), 7), 5),
     eid8 |-> 0,
     eid0 |-> 0]

IdHeader_from_extended_noeid16(raw) ==
    [sidh |-> U8(Shr(raw, 21)),
     sidl |-> BitOr(U8(BitAnd(Shr(raw, 13), 224)), 8),
     eid8 |-> U8(Shr(raw, 8)),
     eid0 |-> U8(raw)]

IdHeader_from_extended(raw) ==
    [sidh |-> U8(Shr(raw, 21)),
     sidl |-> BitOr(BitOr(U8(BitAnd(Shr(raw, 13), 224)), 8),
                    U8(BitAnd(Shr(raw, 16), 3))),
     eid8 |-> U8(Shr(raw, 8)),
     eid0 |-> U8(raw)]

IdHeader_from(id) ==
    IF id.ext THEN IdHeader_from_extended(id.raw) ELSE IdHeader_from_standard(id.raw)

IdHeader_exide(h) == BitAnd(h.sidl, 8) > 0

IdHeader_id(h) ==
    IF IdHeader_exide(h)
    THEN Extended(BitOr(BitOr(BitOr(BitOr(Shl32(h.sidh, 21),
                                          Shl32(BitAnd(h.sidl, 224), 13)),
                                    Shl32(BitAnd(h.sidl, 3), 16)),
                              Shl32(h.eid8, 8)),
                        h.eid0))
    ELSE Standard(BitOr(Shl16(h.sidh, 3), Shr(h.sidl, 5)))

(***************************************************************************)
(* frame.rs: the frame's private IdHeader and the 13-byte Frame.  A frame  *)
(* is its 13 bytes: sidh, sidl, eid8, eid0, dlc, data[0..7] (repr(C)).     *)
(***************************************************************************)
FrameIdHeader_new(id) ==
    IF id.ext
    THEN [sidh |-> U8(Shr(id.raw, 21)),
          sidl |-> BitOr(BitOr(U8(BitAnd(Shr(id.raw, 13), 224)), 8),
                         U8(BitAnd(Shr(id.raw, 16), 3))),
          eid8 |-> U8(Shr(id.raw, 8)),
          eid0 |-> U8(id.raw)]
    ELSE [sidh |-> U8(Shr(id.raw, 3)),
          sidl |-> Shl8(BitAnd(U8(id.raw), 7), 5),
          eid8 |-> 0,
          eid0 |-> 0]

FrameIdHeader_exide(h) == BitAnd(h.sidl, 8) > 0

FrameIdHeader_id(h) ==
    IF FrameIdHeader_exide(h)
    THEN Panic
    ELSE Standard((Shl16(h.sidh, 3) + Shr(h.sidl, 5)) % 65536)

DLC_with(dlc, rtr) == BitOr(BitAnd(dlc, 15), IF rtr THEN 64 ELSE 0)

DLC_dlc(b) == BitAnd(b, 15)

DLC_rtr(b) == Bit(b, 6)

Pad8(data) == [i \in 1..8 |-> IF i <= Len(data) THEN data[i] ELSE 0]

FrameBytes(h, dlc, data) == <<h.sidh, h.sidl, h.eid8, h.eid0, dlc>> \o data

Frame_new_upto9(id, data) ==
    IF Len(data) > 9
    THEN [ok |-> FALSE, bytes |-> <<>>]
    ELSE [ok |-> TRUE,
          bytes |-> FrameBytes(FrameIdHeader_new(id),
                               DLC_with(U8(Len(data)), FALSE), Pad8(data))]

Frame_new(id, data) ==
    IF Len(data) > 8
    THEN [ok |-> FALSE, bytes |-> <<>>]
    ELSE [ok |-> TRUE,
          bytes |-> FrameBytes(FrameIdHeader_new(id),
                               DLC_with(U8(Len(data)), FALSE), Pad8(data))]

Frame_new_remote_unchecked(id, dlc) ==
    [ok |-> TRUE,
     bytes |-> FrameBytes(FrameIdHeader_new(id), DLC_with(U8(dlc), TRUE), Pad8(<<>>))]

Frame_new_remote(id, dlc) ==
    IF dlc > 8
    THEN [ok |-> FALSE, bytes |-> <<>>]
    ELSE [ok |-> TRUE,
          bytes |-> FrameBytes(FrameIdHeader_new(id),
                               DLC_with(U8(dlc), TRUE), Pad8(<<>>))]

\* #[derive(Default)]: every field zero
Frame_default == [i \in 1..13 |-> 0]

Frame_id_header(bytes) ==
    [sidh |-> bytes[1], sidl |-> bytes[2], eid8 |-> bytes[3], eid0 |-> bytes[4]]

Frame_is_extended(bytes) == FrameIdHeader_exide(Frame_id_header(bytes))

Frame_id(bytes) == FrameIdHeader_id(Frame_id_header(bytes))

Frame_dlc(bytes) == DLC_dlc(bytes[5])

Frame_is_remote_frame(bytes) == DLC_rtr(bytes[5])

\* &self.data[0..self.dlc()] panics when dlc exceeds the 8 data bytes
Frame_data(bytes) ==
    IF Frame_dlc(bytes) > 8 THEN Panic
    ELSE SubSeq(bytes, 6, 5 + Frame_dlc(bytes))

Frame_as_bytes(bytes) == bytes

Frame_from_bytes_masked(bytes) ==
    [bytes EXCEPT ![5] = IF DLC_dlc(bytes[5]) > 8 THEN 8 ELSE DLC_dlc(bytes[5])]

Frame_from_bytes_noclamp(bytes) == bytes

Frame_from_bytes(bytes) ==
    IF DLC_dlc(bytes[5]) > 8
    THEN [bytes EXCEPT ![5] = BitOr(BitAnd(bytes[5], 240), 8)]
    ELSE bytes

(***************************************************************************)
(* registers.rs: the 8-bit registers.  A register type is its list of      *)
(* fields from bit 0 upwards; a value of the type holds every field, the   *)
(* skipped (reserved) ones included.  CANCTRL and CNF3 are declared twice: *)
(* with the mcp2515 / mcp25625 feature, and without it (_2510), where one  *)
(* more bit is skipped.                                                    *)
(***************************************************************************)
\* an integer or bool field of w bits
B(w) == [w |-> w, skip |-> FALSE, n |-> Pow2(w)]

\* a #[skip] field of w bits
Skipped(w) == [w |-> w, skip |-> TRUE, n |-> Pow2(w)]

\* an enum field of w bits with n variants numbered from 0
Enum(w, n) == [w |-> w, skip |-> FALSE, n |-> n]

TxCtrlLayout == <<B(2), Skipped(1), B(1), B(1), B(1), B(1), Skipped(1)>>

Flags8 == <<B(1), B(1), B(1), B(1), B(1), B(1), B(1), B(1)>>

RegLayouts ==
    [RXB0CTRL |-> <<B(1), B(1), B(1), B(1), Skipped(1), Enum(2, 4), Skipped(1)>>,
     RXB1CTRL |-> <<B(3), B(1), Skipped(1), Enum(2, 4), Skipped(1)>>,
     CANCTRL |-> <<Enum(2, 4), B(1), B(1), B(1), Enum(3, 8)>>,
     CANCTRL_2510 |-> <<Enum(2, 4), B(1), Skipped(1), B(1), Enum(3, 8)>>,
     CANSTAT |-> <<Skipped(1), Enum(3, 8), Skipped(1), Enum(3, 8)>>,
     CNF1 |-> <<B(6), B(2)>>,
     CNF2 |-> <<B(3), B(3), B(1), B(1)>>,
     CNF3 |-> <<B(3), Skipped(3), B(1), B(1)>>,
     CNF3_2510 |-> <<B(3), Skipped(3), B(1), Skipped(1)>>,
     DLC |-> <<B(4), Skipped(2), B(1), Skipped(1)>>,
     TXB0CTRL |-> TxCtrlLayout,
     TXB1CTRL |-> TxCtrlLayout,
     TXB2CTRL |-> TxCtrlLayout,
     CANINTE |-> Flags8,
     CANINTF |-> Flags8,
     EFLG |-> Flags8,
     BFPCTRL |-> <<B(1), B(1), B(1), B(1), B(1), B(1), Skipped(2)>>,
     TXRTSCTRL |-> <<B(1), B(1), B(1), B(1), B(1), B(1), Skipped(2)>>,
     TEC |-> <<B(8)>>,
     REC |-> <<B(8)>>,
     ReadStatusResponse |-> Flags8,
     RxStatusResponse |-> <<Enum(3, 8), B(1), B(1), Skipped(1), B(1), B(1)>>]

RegNames == DOMAIN RegLayouts

\* bit position of field i
RECURSIVE FieldOffset(_, _)
FieldOffset(layout, i) ==
    IF i = 1 THEN 0 ELSE FieldOffset(layout, i - 1) + layout[i - 1].w

\* From<u8>: the fields of the byte; it fails on a bit pattern that is no
\* variant of an enum field
Reg_from_u8(layout, b) ==
    LET fields == [i \in 1..Len(layout) |->
                      Shr(b, FieldOffset(layout, i)) % Pow2(layout[i].w)]
    IN [ok |-> \A i \in 1..Len(layout) : fields[i] < layout[i].n,
        fields |-> fields]

RECURSIVE Reg_pack(_, _, _, _)
Reg_pack(layout, fields, i, keep) ==
    IF i > Len(layout) THEN 0
    ELSE (IF keep \/ ~layout[i].skip
          THEN Shl8(fields[i] % Pow2(layout[i].w), FieldOffset(layout, i))
          ELSE 0)
         + Reg_pack(layout, fields, i + 1, keep)

Reg_into_u8_noskip(layout, fields) == U8(Reg_pack(layout, fields, 1, FALSE))

\* Into<u8>: every field back at its position
Reg_into_u8(layout, fields) == U8(Reg_pack(layout, fields, 1, TRUE))

(***************************************************************************)
(* Instruction opcodes and register addresses.                             *)
(***************************************************************************)
INSTR_RESET == 192

INSTR_READ == 3

INSTR_WRITE == 2

INSTR_RTS == 128

INSTR_READ_STATUS == 160

INSTR_BIT_MODIFY == 5

INSTR_READ_RX_BUFFER == 144

INSTR_LOAD_TX_BUFFER == 64

CANCTRL_ADDRESS == 15

CANSTAT_ADDRESS == 14

CANINTF_ADDRESS == 44

CNF3_ADDRESS == 40

CNF2_ADDRESS == 41

CNF1_ADDRESS == 42

RXB0CTRL_ADDRESS == 96

RXB1CTRL_ADDRESS == 112

CANCTRL_default == 135

TxBuffers == {0, 1, 2}

RxBuffers == {0, 1}

(***************************************************************************)
(* The controller as the driver sees it over the bus: the transmit request *)
(* bits of TXBnCTRL, CANINTF, CANCTRL, the bit-timing registers CNF3, CNF2, *)
(* CNF1 (in address order) and the two 13-byte receive buffers.  The       *)
(* remaining registers (filters, transmit data) are write-only for the     *)
(* driver and are observed on the wire.                                    *)
(***************************************************************************)
ZeroBlock == [i \in 1..13 |-> 0]

BoolBit(b, n) == IF b THEN Pow2(n) ELSE 0

\* ReadStatusResponse: rx0if, rx1if, txreq0, tx0if, txreq1, tx1if, txreq2, tx2if
Chip_status(c) ==
    BoolBit(Bit(c.canintf, 0), 0) + BoolBit(Bit(c.canintf, 1), 1)
    + BoolBit(c.txreq[1], 2) + BoolBit(Bit(c.canintf, 2), 3)
    + BoolBit(c.txreq[2], 4) + BoolBit(Bit(c.canintf, 3), 5)
    + BoolBit(c.txreq[3], 6) + BoolBit(Bit(c.canintf, 4), 7)

\* Register file as seen by READ: one byte at an address.
Chip_mem(c, addr) ==
    IF addr = CANINTF_ADDRESS THEN c.canintf
    ELSE IF addr >= CNF3_ADDRESS /\ addr <= CNF1_ADDRESS
         THEN c.cnf[addr - CNF3_ADDRESS + 1]
    ELSE IF addr % 16 = CANCTRL_ADDRESS THEN c.canctrl
    ELSE IF addr % 16 = CANSTAT_ADDRESS THEN BitAnd(c.canctrl, 224)
    ELSE IF addr \in {48, 64, 80} THEN BoolBit(c.txreq[(addr \div 16) - 2], 3)
    ELSE IF addr >= 97 /\ addr <= 109 THEN c.rxb[1][addr - 96]
    ELSE IF addr >= 113 /\ addr <= 125 THEN c.rxb[2][addr - 112]
    ELSE 0

\* Register file as changed by WRITE: one byte at an address.
Chip_store(c, addr, v) ==
    IF addr = CANINTF_ADDRESS THEN [c EXCEPT !.canintf = v]
    ELSE IF addr >= CNF3_ADDRESS /\ addr <= CNF1_ADDRESS
         THEN [c EXCEPT !.cnf[addr - CNF3_ADDRESS + 1] = v]
    ELSE IF addr % 16 = CANCTRL_ADDRESS THEN [c EXCEPT !.canctrl = v]
    ELSE IF addr \in {48, 64, 80}
         THEN [c EXCEPT !.txreq[(addr \div 16) - 2] = Bit(v, 3)]
    ELSE c

RECURSIVE Chip_store_seq(_, _, _, _)
Chip_store_seq(c, addr, data, i) ==
    IF i > Len(data) THEN c
    ELSE Chip_store_seq(Chip_store(c, (addr + i - 1) % 128, data[i]), addr, data, i + 1)

\* BIT MODIFY: only the masked bits take the data byte's value.
Chip_bit_modify(c, addr, mask, data) ==
    Chip_store(c, addr,
               BitOr(BitAnd(Chip_mem(c, addr), 255 - mask), BitAnd(data, mask)))

Chip_reset(c) ==
    [c EXCEPT !.txreq = <<FALSE, FALSE, FALSE>>,
              !.canintf = 0,
              !.cnf = <<0, 0, 0>>,
              !.canctrl = CANCTRL_default]

\* RTS 0b1000_0nnn: every buffer named in the low three bits is requested.
Chip_rts(c, op) ==
    [c EXCEPT !.txreq = [i \in 1..3 |-> c.txreq[i] \/ Bit(op, i - 1)]]

\* READ RX BUFFER 0b1001_0nm0: n selects the buffer, m the start (SIDH or D0).
ReadRx_n(op) == IF Bit(op, 2) THEN 1 ELSE 0

ReadRx_start(op) == 97 + 16 * ReadRx_n(op) + (IF Bit(op, 1) THEN 5 ELSE 0)

IsReadRx(op) == BitAnd(op, 249) = INSTR_READ_RX_BUFFER

IsRts(op) == BitAnd(op, 248) = INSTR_RTS

\* Bytes the controller shifts out after the command bytes `out`.
Chip_read(c, out, n) ==
    IF Len(out) = 0 THEN [i \in 1..n |-> 0]
    ELSE IF out[1] = INSTR_READ_STATUS THEN [i \in 1..n |-> Chip_status(c)]
    ELSE IF out[1] = INSTR_READ /\ Len(out) >= 2
         THEN [i \in 1..n |-> Chip_mem(c, (out[2] + i - 1) % 128)]
    ELSE IF IsReadRx(out[1])
         THEN [i \in 1..n |-> Chip_mem(c, (ReadRx_start(out[1]) + i - 1) % 128)]
    ELSE [i \in 1..n |-> 0]

\* Effect of the command bytes `out` once chip-select is released.
Chip_exec(c, out) ==
    IF Len(out) = 0 THEN c
    ELSE IF out[1] = INSTR_RESET THEN Chip_reset(c)
    ELSE IF IsRts(out[1]) THEN Chip_rts(c, out[1])
    ELSE IF out[1] = INSTR_BIT_MODIFY /\ Len(out) >= 4
         THEN Chip_bit_modify(c, out[2], out[3], out[4])
    ELSE IF out[1] = INSTR_WRITE /\ Len(out) >= 3
         THEN Chip_store_seq(c, out[2], SubSeq(out, 3, Len(out)), 1)
    ELSE IF IsReadRx(out[1])
         THEN [c EXCEPT !.canintf =
                  BitAnd(c.canintf, 255 - Pow2(ReadRx_n(out[1])))]
    ELSE c

(***************************************************************************)
(* The bus transport (SpiDevice).  A transaction asserts chip-select, runs *)
(* its operations in order and releases chip-select, also when an          *)
(* operation fails.  m.f names the bus operation of the call that fails    *)
(* (0: none); m.n counts the operations attempted so far.  The error the   *)
(* transport reports for that failure is SpiFault(m.f).                    *)
(***************************************************************************)
SpiFault(f) == [err |-> f]

Ev(k, b) == [k |-> k, b |-> b]

OpWrite(b) == [k |-> "write", b |-> b, n |-> 0]

OpRead(n) == [k |-> "read", b |-> <<>>, n |-> n]

Machine(c, f) == [chip |-> c, wire |-> <<>>, n |-> 0, f |-> f]

RECURSIVE Spi_ops(_, _, _, _, _)
Spi_ops(m, ops, i, out, in) ==
    IF i > Len(ops) THEN [m |-> m, ok |-> TRUE, out |-> out, in |-> in]
    ELSE IF m.n + 1 = m.f
    THEN [m |-> [m EXCEPT !.wire = Append(@, Ev("fault", <<>>)), !.n = @ + 1],
          ok |-> FALSE, out |-> out, in |-> SpiFault(m.f)]
    ELSE IF ops[i].k = "write"
    THEN Spi_ops([m EXCEPT !.wire = Append(@, Ev("write", ops[i].b)), !.n = @ + 1],
                 ops, i + 1, out \o ops[i].b, in)
    ELSE LET data == Chip_read(m.chip, out, ops[i].n)
         IN Spi_ops([m EXCEPT !.wire = Append(@, Ev("read", data)), !.n = @ + 1],
                    ops, i + 1, out, in \o data)

\* chip-select is released; the value is the bytes read, or the error
Spi_release(r) ==
    [m |-> [r.m EXCEPT !.wire = Append(@, Ev("deselect", <<>>)),
                       !.chip = Chip_exec(@, r.out)],
     ok |-> r.ok,
     val |-> r.in]

Spi_transaction(m, ops) ==
    Spi_release(Spi_ops([m EXCEPT !.wire = Append(@, Ev("select", <<>>))],
                        ops, 1, <<>>, <<>>))

Spi_write(m, bytes) == Spi_transaction(m, <<OpWrite(bytes)>>)

(***************************************************************************)
(* lib.rs: the command protocol.  Every operator takes the machine and     *)
(* returns [m, ok, val]: the machine afterwards, Ok / Err, and the value.  *)
(***************************************************************************)
\* Ok(ReadStatusResponse::from_bytes(buf)), or the error of the transaction
status_response(r) ==
    [m |-> r.m, ok |-> r.ok, val |-> IF r.ok THEN r.val[1] ELSE r.val]

read_status(m) ==
    status_response(Spi_transaction(m, <<OpWrite(<<INSTR_READ_STATUS>>), OpRead(1)>>))

reset(m) == Spi_write(m, <<INSTR_RESET>>)

write_register(m, address, reg) == Spi_write(m, <<INSTR_WRITE, address, reg>>)

modify_register(m, address, reg, mask) ==
    Spi_write(m, <<INSTR_BIT_MODIFY, address, mask, reg>>)

write_registers_split(m, start_address, data) ==
    LET a == Spi_write(m, <<INSTR_WRITE, start_address>>)
    IN IF ~a.ok THEN a ELSE Spi_write(a.m, data)

write_registers(m, start_address, data) ==
    Spi_transaction(m, <<OpWrite(<<INSTR_WRITE, start_address>>), OpWrite(data)>>)

request_to_send_index(m, buf_idx) ==
    Spi_write(m, <<BitOr(INSTR_RTS, buf_idx)>>)

request_to_send(m, buf_idx) ==
    Spi_write(m, <<BitOr(INSTR_RTS, Shl8(1, buf_idx))>>)

load_tx_buffer_whole(m, buf_idx, frame) ==
    IF feature
    THEN Spi_transaction(m, <<OpWrite(<<BitOr(INSTR_LOAD_TX_BUFFER, U8(buf_idx * 2))>>),
                              OpWrite(frame)>>)
    ELSE write_registers(m, U8(49 + 16 * buf_idx), frame)

\* &frame.as_bytes()[0..5 + frame.dlc()] panics when the slice exceeds 13 bytes
load_tx_buffer(m, buf_idx, frame) ==
    IF 5 + Frame_dlc(frame) > 13
    THEN [m |-> m, ok |-> FALSE, val |-> Panic]
    ELSE LET data == SubSeq(Frame_as_bytes(frame), 1, 5 + Frame_dlc(frame))
         IN IF feature
            THEN Spi_transaction(m,
                     <<OpWrite(<<BitOr(INSTR_LOAD_TX_BUFFER, U8(buf_idx * 2))>>),
                       OpWrite(data)>>)
            ELSE write_registers(m, U8(49 + 16 * buf_idx), data)

read_rx(m, buf_idx) ==
    IF feature
    THEN Spi_transaction(m,
             <<OpWrite(<<BitOr(INSTR_READ_RX_BUFFER, U8(buf_idx * 2))>>), OpRead(13)>>)
    ELSE Spi_transaction(m,
             <<OpWrite(<<INSTR_READ, U8(97 + 16 * buf_idx)>>), OpRead(13)>>)

read_rx_buffer_clear_anyway(m, buf_idx) ==
    LET r == read_rx(m, buf_idx)
    IN IF feature
       THEN [m |-> r.m, ok |-> r.ok,
             val |-> IF r.ok THEN Frame_from_bytes(r.val) ELSE r.val]
       ELSE LET c == modify_register(r.m, CANINTF_ADDRESS, 0, Shl8(1, buf_idx))
            IN IF ~r.ok THEN [m |-> c.m, ok |-> FALSE, val |-> r.val]
               ELSE IF ~c.ok THEN [m |-> c.m, ok |-> FALSE, val |-> c.val]
               ELSE [m |-> c.m, ok |-> TRUE, val |-> Frame_from_bytes(r.val)]

read_rx_buffer_read_clear_both(r, buf_idx) ==
    IF ~r.ok THEN [m |-> r.m, ok |-> FALSE, val |-> r.val]
    ELSE IF feature THEN [m |-> r.m, ok |-> TRUE, val |-> Frame_from_bytes(r.val)]
    ELSE LET c == modify_register(r.m, CANINTF_ADDRESS, 0, 3)
         IN IF ~c.ok THEN [m |-> c.m, ok |-> FALSE, val |-> c.val]
            ELSE [m |-> c.m, ok |-> TRUE, val |-> Frame_from_bytes(r.val)]

\* the rest of read_rx_buffer once the flag-clearing bit-modify c has run
read_rx_buffer_cleared(c, frame) ==
    IF ~c.ok THEN [m |-> c.m, ok |-> FALSE, val |-> c.val]
    ELSE [m |-> c.m, ok |-> TRUE, val |-> frame]

\* the rest of read_rx_buffer once the buffer read r has run
read_rx_buffer_read(r, buf_idx) ==
    IF ~r.ok THEN [m |-> r.m, ok |-> FALSE, val |-> r.val]
    ELSE IF feature THEN [m |-> r.m, ok |-> TRUE, val |-> Frame_from_bytes(r.val)]
    ELSE read_rx_buffer_cleared(
             modify_register(r.m, CANINTF_ADDRESS, 0, Shl8(1, buf_idx)),
             Frame_from_bytes(r.val))

read_rx_buffer(m, buf_idx) == read_rx_buffer_read(read_rx(m, buf_idx), buf_idx)

(***************************************************************************)
(* lib.rs: configuration.                                                  *)
(***************************************************************************)
IdHeader_into_bytes(h) == <<h.sidh, h.sidl, h.eid8, h.sidh>>

CNF_from_bytes_ascending(bytes) ==
    [cnf3 |-> Reg_from_u8(RegLayouts.CNF3, bytes[3]).fields,
     cnf2 |-> Reg_from_u8(RegLayouts.CNF2, bytes[2]).fields,
     cnf1 |-> Reg_from_u8(RegLayouts.CNF1, bytes[1]).fields]

\* CNF: the three bit-timing registers as register values (the two CNF3
\* declarations hold the same bits)
CNF_from_bytes(bytes) ==
    [cnf3 |-> Reg_from_u8(RegLayouts.CNF3, bytes[1]).fields,
     cnf2 |-> Reg_from_u8(RegLayouts.CNF2, bytes[2]).fields,
     cnf1 |-> Reg_from_u8(RegLayouts.CNF1, bytes[3]).fields]

CNF_into_bytes_ascending(cnf) ==
    <<Reg_into_u8(RegLayouts.CNF1, cnf.cnf1),
      Reg_into_u8(RegLayouts.CNF2, cnf.cnf2),
      Reg_into_u8(RegLayouts.CNF3, cnf.cnf3)>>

CNF_into_bytes(cnf) ==
    <<Reg_into_u8(RegLayouts.CNF3, cnf.cnf3),
      Reg_into_u8(RegLayouts.CNF2, cnf.cnf2),
      Reg_into_u8(RegLayouts.CNF1, cnf.cnf1)>>

\* bitrates::clock_8mhz::CNF_500K_BPS
CNF_500K_BPS == CNF_from_bytes(<<130, 144, 0>>)

set_bitrate(m, cnf) == write_registers(m, CNF3_ADDRESS, CNF_into_bytes(cnf))

set_filter(m, filter, id) == write_registers(m, filter, IdHeader_into_bytes(id))

CANCTRL_with_reqop(mode) == Shl8(mode, 5)

set_mode_full_mask(m, mode) ==
    modify_register(m, CANCTRL_ADDRESS, CANCTRL_with_reqop(mode), 255)

set_mode(m, mode) ==
    modify_register(m, CANCTRL_ADDRESS, CANCTRL_with_reqop(mode), 224)

RECURSIVE set_filters(_, _, _)
set_filters(m, filters, i) ==
    IF i > Len(filters) THEN [m |-> m, ok |-> TRUE, val |-> Nil]
    ELSE LET r == set_filter(m, filters[i].filter, filters[i].id)
         IN IF ~r.ok THEN r ELSE set_filters(r.m, filters, i + 1)

Result(r, res) == [m |-> r.m, res |-> res, val |-> r.val]

apply_config_mode_first(m, config) ==
    LET a == reset(m) IN
    IF ~a.ok THEN Result(a, "Err") ELSE
    LET f == write_register(a.m, CANCTRL_ADDRESS, config.canctrl) IN
    IF ~f.ok THEN Result(f, "Err") ELSE
    LET b == set_bitrate(f.m, config.cnf) IN
    IF ~b.ok THEN Result(b, "Err") ELSE
    LET c == write_register(b.m, RXB0CTRL_ADDRESS, config.rxb0ctrl) IN
    IF ~c.ok THEN Result(c, "Err") ELSE
    LET d == write_register(c.m, RXB1CTRL_ADDRESS, config.rxb1ctrl) IN
    IF ~d.ok THEN Result(d, "Err") ELSE
    LET e == set_filters(d.m, config.filters, 1) IN
    IF ~e.ok THEN Result(e, "Err") ELSE Result(e, "Ok")

apply_config(m, config) ==
    LET a == reset(m) IN
    IF ~a.ok THEN Result(a, "Err") ELSE
    LET b == set_bitrate(a.m, config.cnf) IN
    IF ~b.ok THEN Result(b, "Err") ELSE
    LET c == write_register(b.m, RXB0CTRL_ADDRESS, config.rxb0ctrl) IN
    IF ~c.ok THEN Result(c, "Err") ELSE
    LET d == write_register(c.m, RXB1CTRL_ADDRESS, config.rxb1ctrl) IN
    IF ~d.ok THEN Result(d, "Err") ELSE
    LET e == set_filters(d.m, config.filters, 1) IN
    IF ~e.ok THEN Result(e, "Err") ELSE
    LET f == write_register(e.m, CANCTRL_ADDRESS, config.canctrl) IN
    IF ~f.ok THEN Result(f, "Err") ELSE Result(f, "Ok")

(***************************************************************************)
(* lib.rs: buffer arbitration (embedded_can::nb::Can).                     *)
(***************************************************************************)
\* SpiError(e): the transport's error as the embedded_can error type
SpiError(e) == [spi_error |-> e]

rx0if(status) == Bit(status, 0)

rx1if(status) == Bit(status, 1)

txreq0(status) == Bit(status, 2)

txreq1(status) == Bit(status, 4)

txreq2(status) == Bit(status, 6)

\* the buffer chosen from a status snapshot; 3 stands for WouldBlock
select_tx_buffer_by_txif(status) ==
    IF Bit(status, 3)
    THEN IF Bit(status, 5) THEN IF Bit(status, 7) THEN 3 ELSE 2 ELSE 1
    ELSE 0

select_tx_buffer(status) ==
    IF txreq0(status)
    THEN IF txreq1(status) THEN IF txreq2(status) THEN 3 ELSE 2 ELSE 1
    ELSE 0

transmit_load_on_full(m, frame) ==
    LET s == read_status(m) IN
    IF ~s.ok THEN [m |-> s.m, res |-> "Err", val |-> Nil] ELSE
    LET buf_idx == IF select_tx_buffer(s.val) = 3 THEN 2 ELSE select_tx_buffer(s.val) IN
    LET l == load_tx_buffer(s.m, buf_idx, frame) IN
    IF ~l.ok
    THEN [m |-> l.m, res |-> IF 5 + Frame_dlc(frame) > 13 THEN "Panic" ELSE "Err",
          val |-> Nil] ELSE
    IF select_tx_buffer(s.val) = 3
    THEN [m |-> l.m, res |-> "WouldBlock", val |-> Nil] ELSE
    LET r == request_to_send(l.m, buf_idx) IN
    IF ~r.ok THEN [m |-> r.m, res |-> "Err", val |-> Nil]
    ELSE [m |-> r.m, res |-> "Ok", val |-> Nil]

WouldBlock(m) == [m |-> m, res |-> "WouldBlock", val |-> Nil]

\* map_err(SpiError)? on a step of transmit or receive
Failed(r) == [m |-> r.m, res |-> "Err", val |-> SpiError(r.val)]

\* the rest of transmit once the request-to-send r has run
transmit_requested(r) ==
    IF ~r.ok THEN Failed(r) ELSE [m |-> r.m, res |-> "Ok", val |-> Nil]

\* the rest of transmit once the load l of buffer buf_idx has run
transmit_loaded(l, buf_idx, frame) ==
    IF ~l.ok
    THEN IF 5 + Frame_dlc(frame) > 13 THEN [m |-> l.m, res |-> "Panic", val |-> Nil]
         ELSE Failed(l)
    ELSE transmit_requested(request_to_send(l.m, buf_idx))

transmit_status_buffer0(s, frame) ==
    IF ~s.ok THEN Failed(s)
    ELSE transmit_loaded(load_tx_buffer(s.m, 0, frame), 0, frame)

\* the rest of transmit once the status read s has run
transmit_status(s, frame) ==
    IF ~s.ok THEN Failed(s)
    ELSE IF select_tx_buffer(s.val) = 3 THEN WouldBlock(s.m)
    ELSE transmit_loaded(load_tx_buffer(s.m, select_tx_buffer(s.val), frame),
                         select_tx_buffer(s.val), frame)

transmit(m, frame) == transmit_status(read_status(m), frame)

receive_buffer1_first(m) ==
    LET s == read_status(m) IN
    IF ~s.ok THEN [m |-> s.m, res |-> "Err", val |-> Nil] ELSE
    IF rx1if(s.val)
    THEN LET r == read_rx_buffer(s.m, 1)
         IN [m |-> r.m, res |-> IF r.ok THEN "Ok" ELSE "Err", val |-> r.val]
    ELSE IF rx0if(s.val)
    THEN LET r == read_rx_buffer(s.m, 0)
         IN [m |-> r.m, res |-> IF r.ok THEN "Ok" ELSE "Err", val |-> r.val]
    ELSE [m |-> s.m, res |-> "WouldBlock", val |-> Nil]

receive_clear_always(m) ==
    LET s == read_status(m) IN
    IF ~s.ok THEN [m |-> s.m, res |-> "Err", val |-> Nil] ELSE
    IF rx0if(s.val)
    THEN LET r == read_rx_buffer(s.m, 0)
         IN [m |-> r.m, res |-> IF r.ok THEN "Ok" ELSE "Err", val |-> r.val]
    ELSE IF rx1if(s.val)
    THEN LET r == read_rx_buffer(s.m, 1)
         IN [m |-> r.m, res |-> IF r.ok THEN "Ok" ELSE "Err", val |-> r.val]
    ELSE LET c == modify_register(s.m, CANINTF_ADDRESS, 0, 3)
         IN [m |-> c.m, res |-> "WouldBlock", val |-> Nil]

receive_retry_once(m) ==
    LET s == read_status(m) IN
    IF ~s.ok THEN [m |-> s.m, res |-> "Err", val |-> Nil] ELSE
    IF rx0if(s.val)
    THEN LET r == read_rx_buffer(s.m, 0)
         IN [m |-> r.m, res |-> IF r.ok THEN "Ok" ELSE "Err", val |-> r.val]
    ELSE IF rx1if(s.val)
    THEN LET r == read_rx_buffer(s.m, 1)
         IN [m |-> r.m, res |-> IF r.ok THEN "Ok" ELSE "Err", val |-> r.val]
    ELSE
    LET t == read_status(s.m) IN
    IF ~t.ok THEN [m |-> t.m, res |-> "Err", val |-> Nil] ELSE
    IF rx0if(t.val)
    THEN LET r == read_rx_buffer(t.m, 0)
         IN [m |-> r.m, res |-> IF r.ok THEN "Ok" ELSE "Err", val |-> r.val]
    ELSE IF rx1if(t.val)
    THEN LET r == read_rx_buffer(t.m, 1)
         IN [m |-> r.m, res |-> IF r.ok THEN "Ok" ELSE "Err", val |-> r.val]
    ELSE [m |-> t.m, res |-> "WouldBlock", val |-> Nil]

\* Ok(frame) or the error of read_rx_buffer
received(r) == IF r.ok THEN [m |-> r.m, res |-> "Ok", val |-> r.val] ELSE Failed(r)

\* the rest of receive once the status read s has run
receive_status(s) ==
    IF ~s.ok THEN Failed(s)
    ELSE IF rx0if(s.val) THEN received(read_rx_buffer(s.m, 0))
    ELSE IF rx1if(s.val) THEN received(read_rx_buffer(s.m, 1))
    ELSE WouldBlock(s.m)

receive(m) == receive_status(read_status(m))

(***************************************************************************)
(* lib.rs: embedded_can::blocking::Can.  nb::block! repeats the            *)
(* non-blocking call while it reports WouldBlock; one poll is one such     *)
(* call, and "Polling" stands for a loop that has not finished yet.        *)
(***************************************************************************)
nb_block(r) == [r EXCEPT !.res = IF @ = "WouldBlock" THEN "Polling" ELSE @]

blocking_transmit_poll_while_ok(m, frame) ==
    [transmit(m, frame) EXCEPT !.res = IF @ \in {"WouldBlock", "Ok"} THEN "Polling" ELSE @]

blocking_transmit_poll(m, frame) == nb_block(transmit(m, frame))

blocking_receive_poll(m) == nb_block(receive(m))

(***************************************************************************)
(* Inputs of the driver calls and of the controller's environment.         *)
(***************************************************************************)
MaxFilters == 2

\* a bus fault may strike any of the first MaxFault bus operations of a
\* transmit or receive call (neither performs more than five)
MaxFault == 5

\* polls a blocking call is followed through
MaxPolls == 3

RECURSIVE SeqsUpTo(_, _)
SeqsUpTo(S, n) ==
    IF n = 0 THEN {<<>>}
    ELSE LET shorter == SeqsUpTo(S, n - 1)
         IN shorter \cup {Append(q, x) : q \in {r \in shorter : Len(r) = n - 1}, x \in S}

\* identifier and data of the frames the application builds with CanFrame::new
TxInputs ==
    {[id |-> Standard(1), data |-> <<1, 2, 3>>],
     [id |-> Extended(74565), data |-> <<>>],
     [id |-> Standard(StdMax), data |-> <<8, 7, 6, 5, 4, 3, 2, 1>>]}

\* the raw 13-byte block the bus delivers into receive buffer i: a standard
\* data frame for buffer 0, an extended block with length nibble 15 for buffer 1
RxBlock(i) ==
    IF i = 0
    THEN <<36, 96, 0, 0, 2, 170, 187, 0, 0, 0, 0, 0, 0>>
    ELSE <<0, 43, 205, 239, 15, 1, 2, 3, 4, 5, 6, 7, 8>>

\* AcceptanceFilter slots with identifiers
FilterPairs ==
    {[filter |-> 0, id |-> IdHeader_from(Standard(123))],
     [filter |-> 32, id |-> IdHeader_from(Extended(74565))]}

Configs ==
    {[canctrl |-> cc,
      cnf |-> CNF_500K_BPS,
      rxb0ctrl |-> 96,
      rxb1ctrl |-> 0,
      filters |-> fl] : cc \in {7, CANCTRL_default}, fl \in SeqsUpTo(FilterPairs, MaxFilters)}

\* bus operations an apply_config with n filters performs
ApplyOps(n) == 6 + 2 * n

Idle == [op |-> "idle"]

PowerOn ==
    [txreq |-> <<FALSE, FALSE, FALSE>>,
     canintf |-> 0,
     canctrl |-> CANCTRL_default,
     cnf |-> <<0, 0, 0>>,
     rxb |-> <<ZeroBlock, ZeroBlock>>]

NoId == [ext |-> FALSE, raw |-> 0]

TimingIdle ==
    /\ tin = [clock |-> 8, bytes |-> <<130, 144, 0>>]
    /\ tcnf = Nil
    /\ tseg = Nil

RegIdle ==
    /\ rin = [reg |-> "CANINTF", byte |-> 0]
    /\ rval = Nil
    /\ rbyte = Nil
    /\ TimingIdle

CodecIn(kind, id, data, dlc, block) ==
    [kind |-> kind, id |-> id, data |-> data, dlc |-> dlc, block |-> block]

CodecIdle ==
    /\ cin = CodecIn("data", NoId, <<>>, 0, <<>>)
    /\ chdr = Nil
    /\ cid = Nil
    /\ cfrm = Nil
    /\ cfid = Nil
    /\ cdec = Nil
    /\ RegIdle

Init ==
    /\ feature \in BOOLEAN
    /\ chip = PowerOn
    /\ call = Idle
    /\ wire = <<>>
    /\ ret = Nil
    /\ CodecIdle

(***************************************************************************)
(* Driver calls.  A call runs to completion on the bus; the caller then    *)
(* takes the result (Return) before the next call.                         *)
(***************************************************************************)
Finish(r) ==
    /\ chip' = r.m.chip
    /\ wire' = r.m.wire
    /\ ret' = [res |-> r.res, val |-> r.val]

Transmit ==
    \E in \in TxInputs, f \in 0..MaxFault :
        LET built == Frame_new(in.id, in.data)
        IN /\ call = Idle
           /\ built.ok
           /\ call' = [op |-> "transmit", id |-> in.id, data |-> in.data,
                       frame |-> built.bytes, fault |-> f]
           /\ Finish(transmit(Machine(chip, f), built.bytes))
           /\ UNCHANGED <<feature, codecVars>>

Receive ==
    \E f \in 0..MaxFault :
        /\ call = Idle
        /\ call' = [op |-> "receive", fault |-> f]
        /\ Finish(receive(Machine(chip, f)))
        /\ UNCHANGED <<feature, codecVars>>

ApplyConfig ==
    \E config \in Configs :
        \E f \in 0..ApplyOps(Len(config.filters)) :
            /\ call = Idle
            /\ call' = [op |-> "apply_config", config |-> config, fault |-> f]
            /\ Finish(apply_config(Machine(chip, f), config))
            /\ UNCHANGED <<feature, codecVars>>

\* the application clears transmit-complete flags with modify_register
ClearTxFlag ==
    \E i \in TxBuffers, f \in 0..1 :
        /\ call = Idle
        /\ call' = [op |-> "modify_register", mask |-> Pow2(2 + i), fault |-> f]
        /\ LET r == modify_register(Machine(chip, f), CANINTF_ADDRESS, 0, Pow2(2 + i))
           IN Finish([m |-> r.m, res |-> IF r.ok THEN "Ok" ELSE "Err", val |-> Nil])
        /\ UNCHANGED <<feature, codecVars>>

\* a blocking call: the first poll
BlockingTransmit ==
    \E in \in TxInputs, f \in 0..1 :
        LET built == Frame_new(in.id, in.data)
        IN /\ call = Idle
           /\ built.ok
           /\ call' = [op |-> "blocking_transmit", frame |-> built.bytes,
                       fault |-> f, polls |-> 1]
           /\ Finish(blocking_transmit_poll(Machine(chip, f), built.bytes))
           /\ UNCHANGED <<feature, codecVars>>

BlockingReceive ==
    \E f \in 0..1 :
        /\ call = Idle
        /\ call' = [op |-> "blocking_receive", frame |-> <<>>,
                    fault |-> f, polls |-> 1]
        /\ Finish(blocking_receive_poll(Machine(chip, f)))
        /\ UNCHANGED <<feature, codecVars>>

\* a blocking call that found the hardware busy polls again
Poll ==
    \E f \in 0..1 :
        LET m == [Machine(chip, f) EXCEPT !.wire = wire]
        IN /\ call # Idle
           /\ ret.res = "Polling"
           /\ call.polls < MaxPolls
           /\ call' = [call EXCEPT !.polls = @ + 1, !.fault = f]
           /\ Finish(IF call.op = "blocking_transmit"
                     THEN blocking_transmit_poll(m, call.frame)
                     ELSE blocking_receive_poll(m))
           /\ UNCHANGED <<feature, codecVars>>

\* no driver call is on the bus: none in progress, or a blocking call between
\* two polls
Quiet == IF call = Idle THEN TRUE ELSE ret.res = "Polling"

Return ==
    /\ call # Idle
    /\ ret.res # "Polling"
    /\ call' = Idle
    /\ wire' = <<>>
    /\ ret' = Nil
    /\ UNCHANGED <<feature, chip, codecVars>>

(***************************************************************************)
(* The controller's own steps.                                             *)
(***************************************************************************)
\* a frame is accepted into a free receive buffer and its flag is raised
FrameArrives ==
    \E i \in RxBuffers :
        /\ Quiet
        /\ ~Bit(chip.canintf, i)
        /\ chip' = [chip EXCEPT !.rxb[i + 1] = RxBlock(i),
                                !.canintf = BitOr(@, Pow2(i))]
        /\ UNCHANGED <<feature, call, wire, ret, codecVars>>

\* a requested frame has been sent: TXREQ clears, TXnIF is raised
TxComplete ==
    \E i \in TxBuffers :
        /\ Quiet
        /\ chip.txreq[i + 1]
        /\ chip' = [chip EXCEPT !.txreq[i + 1] = FALSE,
                                !.canintf = BitOr(@, Pow2(2 + i))]
        /\ UNCHANGED <<feature, call, wire, ret, codecVars>>

\* buffer arbitration against a controller on a live bus
Next ==
    \/ Transmit
    \/ Receive
    \/ ClearTxFlag
    \/ BlockingTransmit
    \/ BlockingReceive
    \/ Poll
    \/ Return
    \/ FrameArrives
    \/ TxComplete

Spec == Init /\ [][Next]_vars

\* every driver operation, configuration included, against a controller whose
\* requested transmissions stay pending
NextOps ==
    \/ ApplyConfig
    \/ Transmit
    \/ Receive
    \/ Return
    \/ FrameArrives

SpecOps == Init /\ [][NextOps]_vars

(***************************************************************************)
(* The blocking transmit followed through all its polls.  The loop of      *)
(* nb::block! spins without pause, so the next poll is always taken        *)
(* (weak fairness of PollAgain, written out with its enabling condition:   *)
(* a poll is possible exactly while the call is polling, and the poll that *)
(* faults always changes the state); the controller sends what has been    *)
(* requested (weak fairness of TxComplete).  Only the bus events of the    *)
(* latest poll are kept, and the poll count stops at MaxPolls.             *)
(***************************************************************************)
PollAgain ==
    \E f \in 0..MaxFault :
        /\ call # Idle
        /\ call.op = "blocking_transmit"
        /\ ret.res = "Polling"
        /\ call' = [call EXCEPT !.polls = IF @ < MaxPolls THEN @ + 1 ELSE @,
                                !.fault = f]
        /\ Finish(blocking_transmit_poll(Machine(chip, f), call.frame))
        /\ UNCHANGED <<feature, codecVars>>

PollEnabled == call.op = "blocking_transmit" /\ ret.res = "Polling"

\* WF_vars(PollAgain)
PollFairness == []<>(~PollEnabled) \/ []<><<PollAgain>>_vars

NextLive ==
    \/ Transmit
    \/ BlockingTransmit
    \/ PollAgain
    \/ Return
    \/ TxComplete

SpecLive ==
    /\ Init
    /\ [][NextLive]_vars
    /\ PollFairness
    /\ WF_vars(TxComplete)

(***************************************************************************)
(* The register-level operations of the driver, called one at a time.      *)
(***************************************************************************)
\* AcceptanceFilter: Filter0..Filter5, Mask0, Mask1
AcceptanceFilters == {0, 4, 8, 16, 20, 24, 32, 36}

\* identifiers the application puts into filters and masks
FilterIds == {Standard(123), Standard(StdMax), Extended(74565), Extended(ExtMax)}

SetFilter ==
    \E filter \in AcceptanceFilters, id \in FilterIds, f \in 0..2 :
        /\ call = Idle
        /\ call' = [op |-> "set_filter", filter |-> filter, id |-> id, fault |-> f]
        /\ LET r == set_filter(Machine(chip, f), filter, IdHeader_from(id))
           IN Finish(Result(r, IF r.ok THEN "Ok" ELSE "Err"))
        /\ UNCHANGED <<feature, codecVars>>

\* OperationMode: the five modes and the three invalid patterns
OperationModes == 0..7

SetMode ==
    \E mode \in OperationModes, f \in 0..1 :
        /\ call = Idle
        /\ call' = [op |-> "set_mode", mode |-> mode, fault |-> f]
        /\ LET r == set_mode(Machine(chip, f), mode)
           IN Finish(Result(r, IF r.ok THEN "Ok" ELSE "Err"))
        /\ UNCHANGED <<feature, codecVars>>

\* byte triples the application turns into a CNF with CNF::from_bytes
CnfTriples ==
    {<<130, 144, 0>>, <<0, 0, 0>>, <<255, 255, 255>>, <<56, 0, 0>>,
     <<1, 2, 3>>, <<133, 226, 71>>}

SetBitrate ==
    \E bytes \in CnfTriples, f \in 0..2 :
        /\ call = Idle
        /\ call' = [op |-> "set_bitrate", bytes |-> bytes, fault |-> f]
        /\ LET r == set_bitrate(Machine(chip, f), CNF_from_bytes(bytes))
           IN Finish(Result(r, IF r.ok THEN "Ok" ELSE "Err"))
        /\ UNCHANGED <<feature, codecVars>>

\* CANCTRL values the application writes with write_register
CanctrlValues == {27}

WriteCanctrl ==
    \E v \in CanctrlValues, f \in 0..1 :
        /\ call = Idle
        /\ call' = [op |-> "write_register", reg |-> v, fault |-> f]
        /\ LET r == write_register(Machine(chip, f), CANCTRL_ADDRESS, v)
           IN Finish(Result(r, IF r.ok THEN "Ok" ELSE "Err"))
        /\ UNCHANGED <<feature, codecVars>>

NextRegs ==
    \/ SetFilter
    \/ SetMode
    \/ SetBitrate
    \/ WriteCanctrl
    \/ Return

SpecRegs == Init /\ [][NextRegs]_vars

(***************************************************************************)
(* The codecs applied to identifiers and data the application supplies.    *)
(***************************************************************************)
\* 29-bit samples: every byte value at every field boundary of the header,
\* and the top of the range
ExtSamples ==
    {x \in {b * Pow2(sh) : b \in 0..255, sh \in {0, 8, 13, 16, 18, 21}} : x <= ExtMax}
    \cup {ExtMax - b : b \in 0..255}

\* data lengths and remote lengths run from 0 to one past the 8-byte limit
MaxLen == 9

DataOfLen(n) == [i \in 1..n |-> 16 + i]

CodecData == {<<>>, <<1, 2, 3>>, <<8, 7, 6, 5, 4, 3, 2, 1>>} \cup {DataOfLen(n) : n \in 0..MaxLen}

CodecIds == {Standard(0), Standard(1029), Standard(StdMax),
             Extended(0), Extended(74565), Extended(ExtMax)}

\* raw 13-byte blocks: a standard and an extended header, every control byte
CodecBlocks ==
    {<<h[1], h[2], 205, 239, c, 1, 2, 3, 4, 5, 6, 7, 8>> :
        h \in {<<36, 96>>, <<0, 43>>}, c \in 0..255}

CodecInputs ==
    {CodecIn("data", Standard(r), <<1, 2, 3>>, 0, <<>>) : r \in 0..StdMax}
    \cup {CodecIn("data", Extended(r), <<>>, 0, <<>>) : r \in ExtSamples}
    \cup {CodecIn("data", i, d, 0, <<>>) : i \in CodecIds, d \in CodecData}
    \cup {CodecIn("remote", i, <<>>, n, <<>>) : i \in CodecIds, n \in 0..MaxLen}
    \cup {CodecIn("block", NoId, <<>>, 0, b) : b \in CodecBlocks}
    \cup {CodecIn("default", NoId, <<>>, 0, <<>>)}

InitCodec ==
    /\ feature = FALSE
    /\ chip = PowerOn
    /\ call = Idle
    /\ wire = <<>>
    /\ ret = Nil
    /\ cin \in CodecInputs
    /\ chdr = Nil
    /\ cid = Nil
    /\ cfrm = Nil
    /\ cfid = Nil
    /\ cdec = Nil
    /\ RegIdle

\* what the accessors of a frame return
FrameView(bytes) ==
    [dlc |-> Frame_dlc(bytes),
     data |-> Frame_data(bytes),
     rtr |-> Frame_is_remote_frame(bytes),
     ext |-> Frame_is_extended(bytes)]

Built(r) ==
    IF r.ok THEN [ok |-> TRUE, bytes |-> r.bytes, view |-> FrameView(r.bytes)]
    ELSE [ok |-> FALSE, bytes |-> <<>>, view |-> Nil]

\* IdHeader::from(id)
Pack ==
    /\ cin.kind # "block"
    /\ chdr = Nil
    /\ chdr' = IdHeader_from(cin.id)
    /\ UNCHANGED <<drvVars, regVars, cin, cid, cfrm, cfid, cdec>>

\* IdHeader::id()
Unpack ==
    /\ chdr # Nil
    /\ cid = Nil
    /\ cid' = IdHeader_id(chdr)
    /\ UNCHANGED <<drvVars, regVars, cin, chdr, cfrm, cfid, cdec>>

\* CanFrame::new(id, data)
New ==
    /\ cin.kind = "data"
    /\ cfrm = Nil
    /\ cfrm' = Built(Frame_new(cin.id, cin.data))
    /\ UNCHANGED <<drvVars, regVars, cin, chdr, cid, cfid, cdec>>

\* CanFrame::new_remote(id, dlc)
NewRemote ==
    /\ cin.kind = "remote"
    /\ cfrm = Nil
    /\ cfrm' = Built(Frame_new_remote(cin.id, cin.dlc))
    /\ UNCHANGED <<drvVars, regVars, cin, chdr, cid, cfid, cdec>>

\* CanFrame::from_bytes(block)
FromBytes ==
    /\ cin.kind = "block"
    /\ cfrm = Nil
    /\ cfrm' = Built([ok |-> TRUE, bytes |-> Frame_from_bytes(cin.block)])
    /\ UNCHANGED <<drvVars, regVars, cin, chdr, cid, cfid, cdec>>

\* CanFrame::default()
Default ==
    /\ cin.kind = "default"
    /\ cfrm = Nil
    /\ cfrm' = Built([ok |-> TRUE, bytes |-> Frame_default])
    /\ UNCHANGED <<drvVars, regVars, cin, chdr, cid, cfid, cdec>>

\* Frame::id()
FrameId ==
    /\ cfrm # Nil
    /\ cfrm.ok
    /\ cfid = Nil
    /\ cfid' = Frame_id(cfrm.bytes)
    /\ UNCHANGED <<drvVars, regVars, cin, chdr, cid, cfrm, cdec>>

\* CanFrame::from_bytes(*frame.as_bytes())
Recode ==
    /\ cfrm # Nil
    /\ cfrm.ok
    /\ cdec = Nil
    /\ cdec' = Built([ok |-> TRUE,
                      bytes |-> Frame_from_bytes(Frame_as_bytes(cfrm.bytes))])
    /\ UNCHANGED <<drvVars, regVars, cin, chdr, cid, cfrm, cfid>>

NextCodec ==
    \/ Pack
    \/ Unpack
    \/ New
    \/ NewRemote
    \/ FromBytes
    \/ Default
    \/ FrameId
    \/ Recode

SpecCodec == InitCodec /\ [][NextCodec]_vars

(***************************************************************************)
(* The register codec applied to every byte.                               *)
(***************************************************************************)
\* the register types of the build: RxStatusResponse exists only with the
\* mcp2515 / mcp25625 feature
RegTypes ==
    IF feature THEN RegNames \ {"CANCTRL_2510", "CNF3_2510"}
    ELSE RegNames \ {"CANCTRL", "CNF3", "RxStatusResponse"}

InitRegCodec ==
    /\ feature \in BOOLEAN
    /\ chip = PowerOn
    /\ call = Idle
    /\ wire = <<>>
    /\ ret = Nil
    /\ cin = CodecIn("data", NoId, <<>>, 0, <<>>)
    /\ chdr = Nil
    /\ cid = Nil
    /\ cfrm = Nil
    /\ cfid = Nil
    /\ cdec = Nil
    /\ rin \in [reg : RegTypes, byte : 0..255]
    /\ rval = Nil
    /\ rbyte = Nil
    /\ TimingIdle

\* R::from(byte)
RegDecode ==
    /\ rval = Nil
    /\ rval' = Reg_from_u8(RegLayouts[rin.reg], rin.byte)
    /\ UNCHANGED <<drvVars, cin, chdr, cid, cfrm, cfid, cdec, rin, rbyte, tin, tcnf, tseg>>

\* u8::from(value)
RegEncode ==
    /\ rval # Nil
    /\ rval.ok
    /\ rbyte = Nil
    /\ rbyte' = [byte |-> Reg_into_u8(RegLayouts[rin.reg], rval.fields)]
    /\ UNCHANGED <<drvVars, cin, chdr, cid, cfrm, cfid, cdec, rin, rval, tin, tcnf, tseg>>

NextRegCodec ==
    \/ RegDecode
    \/ RegEncode

SpecRegCodec == InitRegCodec /\ [][NextRegCodec]_vars

(***************************************************************************)
(* bitrates.rs: the preconfigured bit timings, and the segment lengths the *)
(* bit-timing test computes from them.                                     *)
(***************************************************************************)
\* check_bitrates.rs: the clock_8mhz presets the test lists
CNF8 ==
    <<<<130, 144, 0>>, <<133, 177, 0>>, <<134, 180, 0>>, <<133, 177, 1>>,
      <<134, 180, 1>>, <<135, 191, 1>>, <<134, 180, 3>>, <<135, 191, 3>>,
      <<133, 226, 71>>, <<132, 164, 7>>, <<135, 191, 7>>, <<135, 191, 15>>,
      <<135, 191, 31>>>>

\* check_bitrates.rs: the clock_16mhz presets the test lists
CNF16 ==
    <<<<130, 208, 0>>, <<134, 240, 0>>, <<133, 241, 65>>, <<135, 250, 1>>,
      <<134, 240, 3>>, <<135, 250, 3>>, <<135, 255, 3>>, <<7, 190, 3>>,
      <<135, 250, 7>>, <<135, 255, 7>>, <<133, 241, 78>>, <<135, 255, 15>>,
      <<135, 255, 31>>, <<135, 255, 63>>>>

\* check_bitrates.rs: the clock_20mhz presets the test lists
CNF20 ==
    <<<<130, 217, 0>>, <<135, 250, 0>>, <<134, 251, 65>>, <<135, 255, 1>>,
      <<135, 250, 3>>, <<135, 250, 4>>, <<135, 254, 4>>, <<135, 255, 4>>,
      <<135, 250, 9>>, <<135, 255, 9>>, <<135, 255, 11>>>>

CNF1_brp(fields) == fields[1]

CNF1_sjw(fields) == fields[2]

CNF2_prseg(fields) == fields[1]

CNF2_phseg1(fields) == fields[2]

CNF3_phseg2(fields) == fields[1]

\* test_bitrate: segment lengths in time quanta
test_bitrate(cnf) ==
    [prseg |-> CNF2_prseg(cnf.cnf2) + 1,
     phseg1 |-> CNF2_phseg1(cnf.cnf2) + 1,
     phseg2 |-> CNF3_phseg2(cnf.cnf3) + 1,
     sjw |-> CNF1_sjw(cnf.cnf1) + 1,
     tq_num |-> 1 + (CNF2_prseg(cnf.cnf2) + 1) + (CNF2_phseg1(cnf.cnf2) + 1)
                + (CNF3_phseg2(cnf.cnf3) + 1)]

TimingInputs ==
    {[clock |-> 8, bytes |-> CNF8[k]] : k \in 1..Len(CNF8)}
    \cup {[clock |-> 16, bytes |-> CNF16[k]] : k \in 1..Len(CNF16)}
    \cup {[clock |-> 20, bytes |-> CNF20[k]] : k \in 1..Len(CNF20)}

InitBitrates ==
    /\ feature \in BOOLEAN
    /\ chip = PowerOn
    /\ call = Idle
    /\ wire = <<>>
    /\ ret = Nil
    /\ cin = CodecIn("data", NoId, <<>>, 0, <<>>)
    /\ chdr = Nil
    /\ cid = Nil
    /\ cfrm = Nil
    /\ cfid = Nil
    /\ cdec = Nil
    /\ rin = [reg |-> "CANINTF", byte |-> 0]
    /\ rval = Nil
    /\ rbyte = Nil
    /\ tin \in TimingInputs
    /\ tcnf = Nil
    /\ tseg = Nil

\* CNF::from_bytes(triple)
TimingDecode ==
    /\ tcnf = Nil
    /\ tcnf' = CNF_from_bytes(tin.bytes)
    /\ UNCHANGED <<drvVars, cin, chdr, cid, cfrm, cfid, cdec, rin, rval, rbyte, tin, tseg>>

\* test_bitrate(f, cnf)
TimingSegments ==
    /\ tcnf # Nil
    /\ tseg = Nil
    /\ tseg' = test_bitrate(tcnf)
    /\ UNCHANGED <<drvVars, cin, chdr, cid, cfrm, cfid, cdec, rin, rval, rbyte, tin, tcnf>>

NextBitrates ==
    \/ TimingDecode
    \/ TimingSegments

SpecBitrates == InitBitrates /\ [][NextBitrates]_vars

(***************************************************************************)
(* Properties.                                                             *)
(***************************************************************************)
\* C9: a standard identifier 0..2047 is packed with byte 0 = id >> 3, the top
\* three bits of byte 1 = id & 7 and the extension flag (bit 3 of byte 1)
\* clear, and both IdHeader::from(id).id() and CanFrame::new(id, data).id()
\* return the same standard identifier.
C9_StandardRoundTrip ==
    (cin.kind # "block" /\ ~cin.id.ext) =>
        /\ chdr # Nil =>
              /\ chdr.sidh = cin.id.raw \div 8
              /\ chdr.sidl \div 32 = cin.id.raw % 8
              /\ (chdr.sidl \div 8) % 2 = 0
        /\ cid # Nil => cid = Standard(cin.id.raw)
        /\ (cfrm # Nil /\ Len(cin.data) <= 8 /\ cin.dlc <= 8) =>
              /\ cfrm.ok
              /\ cfrm.bytes[1] = cin.id.raw \div 8
              /\ cfrm.bytes[2] \div 32 = cin.id.raw % 8
              /\ (cfrm.bytes[2] \div 8) % 2 = 0
        /\ cfid # Nil => cfid = Standard(cin.id.raw)

C9_Witness ==
    /\ cin.id = Standard(1029)
    /\ cid = Standard(1029)
    /\ cfid = Standard(1029)

\* the identifier with bit k flipped
FlipBit(raw, k) == IF Bit(raw, k) THEN raw - Pow2(k) ELSE raw + Pow2(k)

\* C10: an extended identifier 0..2^29-1 is packed with the extension flag
\* (bit 3 of byte 1) set, IdHeader::from(id).id() returns Id::Extended(id), and
\* no other extended identifier packs to the same header.
C10_ExtendedRoundTrip ==
    cin.id.ext =>
        /\ chdr # Nil =>
              /\ (chdr.sidl \div 8) % 2 = 1
              /\ \A k \in 0..28 :
                    IdHeader_from(Extended(FlipBit(cin.id.raw, k))) # chdr
              /\ \A k \in 0..28 :
                    Pow2(k) # cin.id.raw => IdHeader_from(Extended(Pow2(k))) # chdr
        /\ cid # Nil => cid = Extended(cin.id.raw)

C10_Witness ==
    /\ cin.id = Extended(16711680)
    /\ chdr # Nil
    /\ cid = Extended(16711680)

\* C11: a frame built by CanFrame::new or new_remote from an extended
\* identifier, and a decoded 13-byte block whose extension flag is set, is
\* extended and its id() returns the 29-bit identifier encoded in the header;
\* id() never aborts.
C11_FrameExtendedId ==
    /\ (cin.kind # "block" /\ cin.id.ext /\ cfrm # Nil /\ cfrm.ok) =>
          /\ cfrm.view.ext
          /\ cfid # Nil => (cfid # Panic /\ cfid = Extended(cin.id.raw))
    /\ (cin.kind = "block" /\ Bit(cin.block[2], 3) /\ cfrm # Nil) =>
          /\ cfrm.view.ext
          /\ cfid # Nil =>
                (cfid # Panic /\ cfid = IdHeader_id(Frame_id_header(cin.block)))

(***************************************************************************)
(* Reading the bus events of a call: the chip-select scopes, and what the  *)
(* driver is expected to send for each buffer.                             *)
(***************************************************************************)
\* position of the first deselect of w (Len(w) + 1 when there is none)
RECURSIVE FirstDeselect(_, _)
FirstDeselect(w, i) ==
    IF i > Len(w) THEN i
    ELSE IF w[i].k = "deselect" THEN i
    ELSE FirstDeselect(w, i + 1)

\* the events between each select and the deselect that follows it
RECURSIVE Scopes(_)
Scopes(w) ==
    IF Len(w) = 0 THEN <<>>
    ELSE LET j == FirstDeselect(w, 1)
         IN <<SubSeq(w, 2, j - 1)>> \o Scopes(SubSeq(w, j + 1, Len(w)))

Kinds(scope) == [i \in 1..Len(scope) |-> scope[i].k]

\* the call read a status snapshot
StatusRead ==
    /\ Len(wire) >= 4
    /\ wire[2] = Ev("write", <<INSTR_READ_STATUS>>)
    /\ wire[3].k = "read"
    /\ Len(wire[3].b) = 1

Snapshot == wire[3].b[1]

StatusScope == <<Ev("write", <<INSTR_READ_STATUS>>), Ev("read", <<Snapshot>>)>>

TxPending(s, i) == (s \div Pow2(2 + 2 * i)) % 2 = 1

\* lowest transmit buffer whose pending flag is clear in snapshot s (3: none)
LowestFree(s) ==
    IF \A i \in TxBuffers : TxPending(s, i) THEN 3
    ELSE CHOOSE i \in TxBuffers :
            /\ ~TxPending(s, i)
            /\ \A j \in TxBuffers : j < i => TxPending(s, j)

LoadCmd(i) == IF feature THEN <<64 + 2 * i>> ELSE <<2, 49 + 16 * i>>

RtsCmd(i) == <<128 + Pow2(i)>>

ReadCmd(i) == IF feature THEN <<144 + 2 * i>> ELSE <<3, 97 + 16 * i>>

ClearCmd(i) == <<5, 44, Pow2(i), 0>>

\* a write of one of `cmds` opens some scope after the status read
Sends(cmds) ==
    \E k \in 2..Len(Scopes(wire)) :
        /\ Len(Scopes(wire)[k]) >= 1
        /\ Scopes(wire)[k][1].k = "write"
        /\ Scopes(wire)[k][1].b \in cmds

\* C1: transmit selects the lowest-index transmit buffer whose pending flag
\* (status bits 2/4/6) is clear, whatever the transmit-complete (bits 3/5/7)
\* and receive (bits 0/1) flags are: every load and request-to-send of the
\* call addresses that buffer, and with buffers 0 and 1 pending it is buffer 2.
C1_LowestFreeBuffer ==
    (call.op = "transmit" /\ StatusRead) =>
        LET low == LowestFree(Snapshot)
        IN /\ \A i \in TxBuffers :
                 Sends({LoadCmd(i), RtsCmd(i)}) => i = low
           /\ (low < 3 /\ call.fault = 0) =>
                 /\ ret.res = "Ok"
                 /\ Sends({LoadCmd(low)})
                 /\ Sends({RtsCmd(low)})
           /\ (TxPending(Snapshot, 0) /\ TxPending(Snapshot, 1)
                 /\ ~TxPending(Snapshot, 2) /\ call.fault = 0) =>
                 Sends({RtsCmd(2)})

\* buffers 0 and 1 pending, buffer 2 free but with its transmit-complete flag
\* and both receive flags set: buffer 2 is loaded and requested
C1_Witness ==
    /\ call.op = "transmit"
    /\ StatusRead
    /\ Snapshot = 151
    /\ ret.res = "Ok"
    /\ Sends({RtsCmd(2)})

\* C2: when the snapshot shows all three transmit buffers pending, transmit
\* returns WouldBlock, the status read is the only bus transaction of the
\* call (no load, no request-to-send) and the controller state is unchanged.
C2_FullReportsWouldBlock ==
    [][(call'.op = "transmit" /\ StatusRead' /\ LowestFree(Snapshot') = 3) =>
          /\ ret'.res = "WouldBlock"
          /\ wire' = <<Ev("select", <<>>),
                       Ev("write", <<INSTR_READ_STATUS>>),
                       Ev("read", <<Snapshot'>>),
                       Ev("deselect", <<>>)>>
          /\ chip' = chip]_vars

C2_Witness ==
    /\ call.op = "transmit"
    /\ StatusRead
    /\ \A i \in TxBuffers : TxPending(Snapshot, i)
    /\ ret.res = "WouldBlock"
    /\ Len(wire) = 4

\* C3: a successful transmit is exactly three transactions in this order: the
\* status read, the load of the selected buffer i, and the request-to-send
\* RTS | (1 << i) for the same i; nothing follows the request-to-send.
C3_ThreeTransactions ==
    (call.op = "transmit" /\ ret.res = "Ok") =>
        LET sc == Scopes(wire)
        IN /\ StatusRead
           /\ Len(sc) = 3
           /\ sc[1] = StatusScope
           /\ \E i \in TxBuffers :
                 /\ Kinds(sc[2]) = <<"write", "write">>
                 /\ sc[2][1].b = LoadCmd(i)
                 /\ sc[3] = <<Ev("write", RtsCmd(i))>>

C3_Witness ==
    /\ call.op = "transmit"
    /\ ret.res = "Ok"
    /\ Len(Scopes(wire)) = 3
    /\ Scopes(wire)[3] = <<Ev("write", <<130>>)>>

\* C4: loading transmit buffer i sends the load opcode (LOADTX | 2*i, or
\* WRITE, 0x31 + 0x10*i) followed by exactly the first 5 + dlc bytes of the
\* frame's 13 bytes; standard id 1 with data [1,2,3] and all buffers free
\* sends [0x00,0x20,0x00,0x00,0x03,1,2,3] to buffer 0.
C4_LoadPayload ==
    (call.op = "transmit" /\ StatusRead /\ Len(Scopes(wire)) >= 2
        /\ Kinds(Scopes(wire)[2]) = <<"write", "write">>) =>
        LET load == Scopes(wire)[2]
        IN /\ load[1].b = LoadCmd(LowestFree(Snapshot))
           /\ load[2].b = SubSeq(call.frame, 1, 5 + Len(call.data))
           /\ Len(load[2].b) = 5 + (call.frame[5] % 16)
           /\ (call.id = Standard(1) /\ call.data = <<1, 2, 3>>
                 /\ LowestFree(Snapshot) = 0) =>
                 /\ load[1].b = (IF feature THEN <<64>> ELSE <<2, 49>>)
                 /\ load[2].b = <<0, 32, 0, 0, 3, 1, 2, 3>>

C4_Witness ==
    /\ call.op = "transmit"
    /\ call.id = Standard(1)
    /\ StatusRead
    /\ Snapshot = 0
    /\ ret.res = "Ok"
    /\ Scopes(wire)[2][2].b = <<0, 32, 0, 0, 3, 1, 2, 3>>

\* C5: receive reads and returns receive buffer 0 whenever status bit 0 is
\* set, whatever bit 1 is; it reads buffer 1 only when bit 0 is clear and
\* bit 1 is set; with both set buffer 0 is read and buffer 1 is left alone,
\* its flag still pending.
C5_Buffer0First ==
    (call.op = "receive" /\ StatusRead) =>
        LET s == Snapshot
            sc == Scopes(wire)
        IN /\ s % 2 = 1 =>
                 /\ ~Sends({ReadCmd(1), ClearCmd(1)})
                 /\ call.fault = 0 =>
                       /\ ret.res = "Ok"
                       /\ sc[2][1].b = ReadCmd(0)
                       /\ sc[2][2].b = chip.rxb[1]
                       /\ ret.val = Frame_from_bytes(chip.rxb[1])
           /\ Sends({ReadCmd(1), ClearCmd(1)}) => (s % 2 = 0 /\ (s \div 2) % 2 = 1)
           /\ (s % 2 = 0 /\ (s \div 2) % 2 = 1 /\ call.fault = 0) =>
                 /\ ret.res = "Ok"
                 /\ sc[2][1].b = ReadCmd(1)
           /\ s % 4 = 3 => (chip.canintf \div 2) % 2 = 1

C5_Witness ==
    /\ call.op = "receive"
    /\ StatusRead
    /\ Snapshot % 4 = 3
    /\ ret.res = "Ok"
    /\ ret.val = RxBlock(0)

\* C6: when neither receive flag is set in the snapshot, receive returns
\* WouldBlock and the status read is the only bus transaction of the call,
\* whatever the transmit flags are.
C6_NothingPending ==
    (call.op = "receive" /\ StatusRead /\ Snapshot % 4 = 0) =>
        /\ ret.res = "WouldBlock"
        /\ Scopes(wire) = <<StatusScope>>
        /\ Len(wire) = 4

C6_Witness ==
    /\ call.op = "receive"
    /\ StatusRead
    /\ Snapshot = 84
    /\ ret.res = "WouldBlock"

\* what apply_config is expected to write, one entry per transaction
FilterWrites(filters) ==
    [j \in 1..Len(filters) |->
        <<<<INSTR_WRITE, filters[j].filter>>, IdHeader_into_bytes(filters[j].id)>>]

ConfigWrites(config) ==
    <<<<<<INSTR_RESET>>>>,
      <<<<INSTR_WRITE, CNF3_ADDRESS>>, CNF_into_bytes(config.cnf)>>,
      <<<<INSTR_WRITE, RXB0CTRL_ADDRESS, config.rxb0ctrl>>>>,
      <<<<INSTR_WRITE, RXB1CTRL_ADDRESS, config.rxb1ctrl>>>>>>
    \o FilterWrites(config.filters)
    \o <<<<<<INSTR_WRITE, CANCTRL_ADDRESS, config.canctrl>>>>>>

\* the byte strings written in a scope, a failed operation left out
Written(scope) ==
    LET w == SelectSeq(scope, LAMBDA e : e.k = "write")
    IN [i \in 1..Len(w) |-> w[i].b]

IsPrefix(p, q) == Len(p) <= Len(q) /\ p = SubSeq(q, 1, Len(p))

\* C7: apply_config writes, in this order, reset, the bit-timing triple,
\* RXB0CTRL, RXB1CTRL, every (filter slot, identifier) pair in the order of
\* the caller's list, and last CANCTRL, for any filter list including the
\* empty one; a call cut short by a bus fault has written a prefix of it.
C7_ConfigOrder ==
    call.op = "apply_config" =>
        LET sc == Scopes(wire)
            want == ConfigWrites(call.config)
        IN /\ Len(sc) >= 1
           /\ Len(sc) <= Len(want)
           /\ \A k \in 1..Len(sc) :
                 /\ IsPrefix(Written(sc[k]), want[k])
                 /\ k < Len(sc) => Written(sc[k]) = want[k]
           /\ ret.res = "Ok" =>
                 /\ Len(sc) = Len(want)
                 /\ \A k \in 1..Len(sc) : Written(sc[k]) = want[k]
                 /\ Written(sc[1]) = <<<<INSTR_RESET>>>>
                 /\ Written(sc[Len(sc)]) =
                       <<<<INSTR_WRITE, CANCTRL_ADDRESS, call.config.canctrl>>>>
           /\ call.fault = 0 => ret.res = "Ok"

\* two different filters, applied in the caller's order, then CANCTRL
C7_Witness ==
    /\ call.op = "apply_config"
    /\ ret.res = "Ok"
    /\ Len(call.config.filters) = 2
    /\ call.config.filters[1].filter = 32
    /\ call.config.filters[2].filter = 0
    /\ Len(Scopes(wire)) = 7
    /\ Written(Scopes(wire)[5])[1] = <<INSTR_WRITE, 32>>
    /\ Written(Scopes(wire)[6])[1] = <<INSTR_WRITE, 0>>
    /\ Written(Scopes(wire)[7])[1][2] = CANCTRL_ADDRESS

CountKind(w, k) == Cardinality({i \in 1..Len(w) : w[i].k = k})

\* C8: in every driver call chip-select is asserted and released in strict
\* alternation, every byte moves inside a scope, and chip-select is released
\* when the call returns, with or without a bus fault; a successful
\* apply_config with n filters makes exactly n + 5 scopes, a successful
\* transmit 3.
C8_ChipSelectScopes ==
    /\ Len(wire) > 0 => (wire[1].k = "select" /\ wire[Len(wire)].k = "deselect")
    /\ \A i \in 1..Len(wire) :
          /\ wire[i].k = "select" => (i = 1 \/ wire[i - 1].k = "deselect")
          /\ wire[i].k # "select" => (i > 1 /\ wire[i - 1].k # "deselect")
    /\ CountKind(wire, "select") = CountKind(wire, "deselect")
    /\ call.op # "idle" => Len(wire) > 0
    /\ (call.op = "apply_config" /\ ret.res = "Ok") =>
          CountKind(wire, "select") = Len(call.config.filters) + 5
    /\ (call.op = "transmit" /\ ret.res = "Ok") => CountKind(wire, "select") = 3

\* a fault in the middle of a filter write: chip-select is released all the same
C8_Witness ==
    /\ call.op = "apply_config"
    /\ Len(call.config.filters) = 2
    /\ ret.res = "Err"
    /\ CountKind(wire, "select") = 6
    /\ wire[Len(wire) - 1].k = "fault"
    /\ wire[Len(wire) - 2].k = "write"
    /\ wire[Len(wire)].k = "deselect"

\* C13: for every frame built with data length 0..8 (data or remote), decoding
\* its 13-byte encoding gives back the same frame: the same 13 bytes and the
\* same dlc, remote flag, extended flag and data().
C13_EncodeDecode ==
    (cin.kind # "block" /\ cfrm # Nil /\ cfrm.ok /\ cdec # Nil) =>
        /\ cdec.ok
        /\ Len(cdec.bytes) = 13
        /\ cdec.bytes = cfrm.bytes
        /\ cdec.view.dlc = cfrm.view.dlc
        /\ cdec.view.rtr = cfrm.view.rtr
        /\ cdec.view.ext = cfrm.view.ext
        /\ cdec.view.data = cfrm.view.data

\* a remote frame with an extended identifier and length 8, decoded again
C13_Witness ==
    /\ cin.kind = "remote"
    /\ cin.id = Extended(74565)
    /\ cin.dlc = 8
    /\ cdec # Nil
    /\ cdec.view.rtr
    /\ cdec.view.dlc = 8
    /\ cdec.bytes = cfrm.bytes

\* C14: CanFrame::new(id, data) fails exactly when data is longer than 8
\* bytes and CanFrame::new_remote(id, dlc) exactly when dlc > 8; on success
\* dlc() is the given length, data() the given bytes (new), and the remote
\* flag is set by new_remote only.
C14_LengthCheck ==
    /\ (cin.kind = "data" /\ cfrm # Nil) =>
          /\ cfrm.ok <=> Len(cin.data) <= 8
          /\ cfrm.ok =>
                /\ cfrm.view.dlc = Len(cin.data)
                /\ cfrm.view.data = cin.data
                /\ ~cfrm.view.rtr
    /\ (cin.kind = "remote" /\ cfrm # Nil) =>
          /\ cfrm.ok <=> cin.dlc <= 8
          /\ cfrm.ok =>
                /\ cfrm.view.dlc = cin.dlc
                /\ cfrm.view.rtr

\* nine data bytes are refused
C14_Witness ==
    /\ cin.kind = "data"
    /\ Len(cin.data) = 9
    /\ cfrm # Nil
    /\ ~cfrm.ok

\* C15: from_bytes never fails: the decoded frame's dlc is the low nibble of
\* the control byte clamped to 8 and data() is the first dlc data bytes; a
\* nibble of 9..15 gives dlc 8 and the first 8 data bytes.
C15_DecodeClamps ==
    (cin.kind = "block" /\ cfrm # Nil) =>
        LET nibble == cin.block[5] % 16
        IN /\ cfrm.ok
           /\ cfrm.view.dlc = (IF nibble > 8 THEN 8 ELSE nibble)
           /\ cfrm.view.dlc <= 8
           /\ cfrm.view.data = SubSeq(cin.block, 6, 5 + cfrm.view.dlc)
           /\ nibble >= 9 =>
                 /\ cfrm.view.dlc = 8
                 /\ cfrm.view.data = SubSeq(cin.block, 6, 13)

\* a control byte with length nibble 15 and the remote bit set
C15_Witness ==
    /\ cin.kind = "block"
    /\ cin.block[5] = 79
    /\ cfrm # Nil
    /\ cfrm.view.dlc = 8
    /\ cfrm.view.data = <<1, 2, 3, 4, 5, 6, 7, 8>>

\* C16: for every register type and every byte 0..255, decoding the byte
\* succeeds and encoding the decoded value gives the byte back, reserved
\* (skipped) bits included.
C16_RegisterRoundTrip ==
    /\ rval # Nil =>
          /\ rval.ok
          /\ Len(rval.fields) = Len(RegLayouts[rin.reg])
    /\ rbyte # Nil => rbyte.byte = rin.byte

\* RXB0CTRL with every bit set, the two reserved bits among them
C16_Witness ==
    /\ rin = [reg |-> "RXB0CTRL", byte |-> 255]
    /\ rval # Nil
    /\ rval.fields = <<1, 1, 1, 1, 1, 3, 1>>
    /\ rbyte = [byte |-> 255]

\* a scope that read a status snapshot
IsStatusScope(scope) ==
    /\ Len(scope) = 2
    /\ scope[1] = Ev("write", <<INSTR_READ_STATUS>>)
    /\ scope[2].k = "read"

\* the scopes of w that read a status snapshot
StatusScopes(w) == {k \in 1..Len(Scopes(w)) : IsStatusScope(Scopes(w)[k])}

\* the snapshot s leaves a transmit (no free buffer) or a receive (no frame
\* pending) nothing to do
Busy(op, s) ==
    IF op \in {"transmit", "blocking_transmit"}
    THEN \A i \in TxBuffers : TxPending(s, i)
    ELSE s % 4 = 0

ArbitrationCalls == {"transmit", "receive", "blocking_transmit", "blocking_receive"}

\* C17 as stated: no transmit or receive call, blocking ones included, reads
\* the status more than once, and a call that finds the hardware busy hands
\* WouldBlock to its caller instead of polling again.
C17_NoInternalRetry ==
    call.op \in ArbitrationCalls =>
        /\ Cardinality(StatusScopes(wire)) <= 1
        /\ \A k \in StatusScopes(wire) :
              Busy(call.op, Scopes(wire)[k][2].b[1]) => ret.res = "WouldBlock"

\* C17 amended: the non-blocking transmit and receive read the status at most
\* once per call and return WouldBlock when the snapshot is busy; the blocking
\* transmit and receive repeat the non-blocking call, one status read per
\* poll, exactly as long as the snapshot is busy, and never hand WouldBlock
\* to the caller.
C17_RetryOnlyInBlocking ==
    LET sc == Scopes(wire)
        ss == StatusScopes(wire)
    IN /\ call.op \in {"transmit", "receive"} =>
             /\ Cardinality(ss) <= 1
             /\ \A k \in ss :
                   /\ k = 1
                   /\ Busy(call.op, sc[k][2].b[1]) =>
                         (ret.res = "WouldBlock" /\ Len(sc) = 1)
             /\ ret.res = "WouldBlock" => Cardinality(ss) = 1
       /\ call.op \in {"blocking_transmit", "blocking_receive"} =>
             /\ ret.res # "WouldBlock"
             /\ Cardinality(ss) <= call.polls
             /\ call.polls <= MaxPolls
             /\ \A k \in ss :
                   IF Busy(call.op, sc[k][2].b[1])
                   THEN \/ k = Len(sc) /\ ret.res = "Polling"
                        \/ k < Len(sc) /\ IsStatusScope(sc[k + 1])
                        \/ k < Len(sc) /\ Kinds(sc[k + 1]) = <<"fault">>
                   ELSE \A j \in ss : j <= k
             /\ ret.res = "Polling" =>
                   (Len(sc) \in ss /\ Cardinality(ss) = call.polls)

\* a blocking receive that polled twice in vain and got the frame on the
\* third status read
C17_Witness ==
    /\ call.op = "blocking_receive"
    /\ call.polls = 3
    /\ Cardinality(StatusScopes(wire)) = 3
    /\ ret.res = "Ok"
    /\ ret.val = RxBlock(0)

\* C18: when the transport fails in a transaction of apply_config, transmit
\* or receive, the call returns that error and the failed transaction is the
\* last one on the bus: apply_config runs none of the later steps, transmit
\* sends no request-to-send after a failed load and nothing after a failed
\* status read, the fallback receive sends no bit-modify after a failed
\* buffer read.  Without a transport failure no error is returned.
C18_FaultStopsOperation ==
    call.op \in {"apply_config", "transmit", "receive"} =>
        LET sc == Scopes(wire)
        IN /\ CountKind(wire, "fault") > 0 =>
                 /\ ret.res = "Err"
                 /\ ret.val = (IF call.op = "apply_config"
                               THEN SpiFault(call.fault)
                               ELSE SpiError(SpiFault(call.fault)))
                 /\ CountKind(wire, "fault") = 1
                 /\ wire[Len(wire) - 1].k = "fault"
                 /\ \A k \in 1..(Len(sc) - 1) : CountKind(sc[k], "fault") = 0
                 /\ CountKind(wire, "write") + CountKind(wire, "read") = call.fault - 1
                 /\ (call.op = "transmit" /\ Len(sc) <= 2) =>
                       \A i \in TxBuffers : ~Sends({RtsCmd(i)})
                 /\ (call.op = "transmit" /\ Len(sc) = 1) =>
                       \A i \in TxBuffers : ~Sends({LoadCmd(i)})
                 /\ (call.op = "receive" /\ Len(sc) <= 2) =>
                       \A i \in RxBuffers : ~Sends({ClearCmd(i)})
                 /\ call.op = "apply_config" =>
                       Len(sc) <= Len(call.config.filters) + 5
           /\ ret.res = "Err" => CountKind(wire, "fault") = 1
           /\ call.fault = 0 => ret.res # "Err"

\* the fallback receive: the read of the buffer fails, no bit-modify follows
C18_Witness ==
    /\ call.op = "receive"
    /\ ~feature
    /\ call.fault = 4
    /\ ret.res = "Err"
    /\ ret.val = SpiError(SpiFault(4))
    /\ Len(Scopes(wire)) = 2
    /\ Scopes(wire)[2] = <<Ev("write", ReadCmd(0)), Ev("fault", <<>>)>>

\* C19: set_mode(mode) sends exactly one transaction, the bit-modify
\* [BITMODIFY, 0x0F, 0b1110_0000, mode << 5]; in CANCTRL only the three
\* request-operation-mode bits change, the low five bits keep their value;
\* for Configuration the value byte is 0b1000_0000.
C19_SetModeBits ==
    [][(call'.op = "set_mode" /\ call'.fault = 0) =>
          /\ ret'.res = "Ok"
          /\ wire' = <<Ev("select", <<>>),
                       Ev("write", <<INSTR_BIT_MODIFY, 15, 224, 32 * call'.mode>>),
                       Ev("deselect", <<>>)>>
          /\ call'.mode = 4 => wire'[2].b[4] = 128
          /\ chip'.canctrl % 32 = chip.canctrl % 32
          /\ chip'.canctrl \div 32 = call'.mode
          /\ chip' = [chip EXCEPT !.canctrl = chip'.canctrl]]_vars

\* Configuration requested while one-shot and abort are set and the clock
\* output is off: those bits stay
C19_Witness ==
    /\ call.op = "set_mode"
    /\ call.mode = 4
    /\ ret.res = "Ok"
    /\ wire[2].b = <<5, 15, 224, 128>>
    /\ chip.canctrl = 155

\* C20: set_bitrate(cnf) sends one transaction, [WRITE, 0x28] followed by
\* the bytes of CNF3, CNF2, CNF1 in this order, which land at 0x28, 0x29 and
\* 0x2A; CNF::into_bytes(CNF::from_bytes(b)) = b; the 8 MHz 500 kbit/s preset
\* is sent as [0x82, 0x90, 0x00].
C20_BitrateBytes ==
    (call.op = "set_bitrate" /\ ret.res = "Ok") =>
        /\ CNF_into_bytes(CNF_from_bytes(call.bytes)) = call.bytes
        /\ Scopes(wire) =
              <<<<Ev("write", <<INSTR_WRITE, 40>>), Ev("write", call.bytes)>>>>
        /\ Chip_mem(chip, CNF3_ADDRESS) = call.bytes[1]
        /\ Chip_mem(chip, CNF2_ADDRESS) = call.bytes[2]
        /\ Chip_mem(chip, CNF1_ADDRESS) = call.bytes[3]
        /\ CNF_500K_BPS = CNF_from_bytes(call.bytes) =>
              Scopes(wire)[1][2].b = <<130, 144, 0>>

C20_Witness ==
    /\ call.op = "set_bitrate"
    /\ call.bytes = <<130, 144, 0>>
    /\ ret.res = "Ok"
    /\ wire = <<Ev("select", <<>>), Ev("write", <<2, 40>>),
                Ev("write", <<130, 144, 0>>), Ev("deselect", <<>>)>>
    /\ chip.cnf = <<130, 144, 0>>

\* C12: set_filter(slot, id) writes, after [WRITE, slot address], the four
\* header bytes of the identifier, with byte 2 = bits 15..8 and byte 3 =
\* bits 7..0 of an extended identifier and both 0 for a standard one.
C12_FilterBytes ==
    (call.op = "set_filter" /\ ret.res = "Ok") =>
        LET h == IdHeader_from(call.id)
            low == IF call.id.ext THEN call.id.raw % 65536 ELSE 0
        IN Scopes(wire) =
              <<<<Ev("write", <<INSTR_WRITE, call.filter>>),
                  Ev("write", <<h.sidh, h.sidl, low \div 256, low % 256>>)>>>>

\* the receive buffer a snapshot makes receive read
RxChosen(s) == IF s % 2 = 1 THEN 0 ELSE 1

\* C21: without the mcp2515 / mcp25625 feature, reading receive buffer i is
\* the 13-byte read [READ, 0x61 + 0x10*i] and then, in a transaction of its
\* own, the bit-modify [BITMODIFY, 0x2C, 1 << i, 0]; in the controller only
\* bit i of CANINTF changes, to 0.  With the feature it is [READRX | 2*i]
\* with a 13-byte read, and no bit-modify is sent.
C21_ReadThenClear ==
    [][(call'.op = "receive" /\ ret'.res = "Ok") =>
          LET sc == Scopes(wire')
              i == RxChosen(Snapshot')
          IN /\ StatusRead'
             /\ Kinds(sc[2]) = <<"write", "read">>
             /\ Len(sc[2][2].b) = 13
             /\ ~feature =>
                   /\ Len(sc) = 3
                   /\ sc[2][1].b = <<INSTR_READ, 97 + 16 * i>>
                   /\ sc[3] = <<Ev("write", <<INSTR_BIT_MODIFY, 44, Pow2(i), 0>>)>>
                   /\ ~Bit(chip'.canintf, i)
                   /\ \A k \in 0..7 :
                         k # i => (Bit(chip'.canintf, k) <=> Bit(chip.canintf, k))
                   /\ chip' = [chip EXCEPT !.canintf = chip.canintf - Pow2(i)]
             /\ feature =>
                   /\ Len(sc) = 2
                   /\ sc[2][1].b = <<INSTR_READ_RX_BUFFER + 2 * i>>
                   /\ \A k \in 1..Len(wire') :
                         wire'[k].k = "write" => wire'[k].b[1] # INSTR_BIT_MODIFY]_vars

\* buffer 0 read on the fallback path while buffer 1 and a transmit-complete
\* flag are pending: both stay
C21_Witness ==
    /\ ~feature
    /\ call.op = "receive"
    /\ ret.res = "Ok"
    /\ StatusRead
    /\ Snapshot % 4 = 3
    /\ Scopes(wire)[2][1].b = <<3, 97>>
    /\ Scopes(wire)[3] = <<Ev("write", <<5, 44, 1, 0>>)>>
    /\ chip.canintf = 6

\* C22: for every preset of the 8, 16 and 20 MHz tables the test lists, with
\* PHSEG2 = CNF3 bits 2..0, PHSEG1 = CNF2 bits 5..3 and SJW = CNF1 bits 7..6,
\* PHSEG1 + 1 >= SJW + 1 and PHSEG2 + 1 >= SJW + 1.
C22_PhaseSegments ==
    tseg # Nil =>
        /\ tseg.phseg2 = (tin.bytes[1] % 8) + 1
        /\ tseg.phseg1 = ((tin.bytes[2] \div 8) % 8) + 1
        /\ tseg.sjw = (tin.bytes[3] \div 64) + 1
        /\ tseg.phseg1 >= tseg.sjw
        /\ tseg.phseg2 >= tseg.sjw

\* clock_16mhz::CNF_250K_BPS, a preset with a jump width of two quanta
C22_Witness ==
    /\ tin = [clock |-> 16, bytes |-> <<133, 241, 65>>]
    /\ tseg # Nil
    /\ tseg.sjw = 2
    /\ tseg.phseg1 = 7
    /\ tseg.phseg2 = 6

\* C23: every frame obtained from CanFrame::new, new_remote, from_bytes or
\* default has a data length code of at most 8: the 5 + dlc bytes that
\* load_tx_buffer slices fit the 13-byte encoding and data() stays within
\* the 8 data bytes.
C23_DlcAtMost8 ==
    /\ (cfrm # Nil /\ cfrm.ok) =>
          /\ cfrm.view.dlc <= 8
          /\ Len(cfrm.bytes) = 13
          /\ 5 + Frame_dlc(cfrm.bytes) <= Len(Frame_as_bytes(cfrm.bytes))
          /\ load_tx_buffer(Machine(chip, 0), 0, cfrm.bytes).ok
          /\ cfrm.view.data = SubSeq(cfrm.bytes, 6, 5 + cfrm.view.dlc)
          /\ Len(cfrm.view.data) <= 8
    /\ (cdec # Nil /\ cdec.ok) => cdec.view.dlc <= 8

\* a decoded block whose length nibble is 15: the frame's dlc is 8
C23_Witness ==
    /\ cin.kind = "block"
    /\ cin.block[5] = 15
    /\ cfrm # Nil
    /\ cfrm.ok
    /\ cfrm.view.dlc = 8
    /\ Len(cfrm.view.data) = 8
    /\ cdec # Nil

\* the transmit buffers pending in controller state c
PendingTx(c) == {i \in TxBuffers : c.txreq[i + 1]}

\* the first write of every scope of w after the status read
Commands(w) ==
    LET sc == Scopes(w)
    IN {sc[k][1].b : k \in {j \in 2..Len(sc) : Len(sc[j]) >= 1 /\ sc[j][1].k = "write"}}

\* C24: whatever transmissions the controller has completed between the
\* calls, a transmit call never loads or requests a transmit buffer whose
\* pending flag is set when the call starts.  While nothing completes, the
\* pending buffers grow {} -> {0} -> {0, 1} -> {0, 1, 2}, one successful
\* transmit each, into buffers 0, 1, 2 in this order, and the next transmit
\* reports WouldBlock and changes nothing.
C24_NeverLoadPending ==
    [][(call = Idle /\ call'.op = "transmit") =>
          LET sent == Commands(wire')
              before == PendingTx(chip)
              after == PendingTx(chip')
          IN /\ \A i \in before : LoadCmd(i) \notin sent /\ RtsCmd(i) \notin sent
             /\ before \subseteq after
             /\ call'.fault = 0 =>
                   /\ \A n \in TxBuffers :
                         before = 0..(n - 1) =>
                             /\ ret'.res = "Ok"
                             /\ sent = {LoadCmd(n), RtsCmd(n)}
                             /\ after = 0..n
                   /\ before = TxBuffers =>
                         /\ ret'.res = "WouldBlock"
                         /\ chip' = chip
                         /\ sent = {}]_vars

\* no transmission has completed: the third transmit in a row has filled
\* buffer 2 after buffers 0 and 1
C24_Witness ==
    /\ call.op = "transmit"
    /\ call.fault = 0
    /\ ret.res = "Ok"
    /\ Sends({LoadCmd(2)})
    /\ Sends({RtsCmd(2)})
    /\ PendingTx(chip) = TxBuffers
    /\ chip.canintf = 0

\* the receive buffers pending in controller state c
PendingRx(c) == {i \in RxBuffers : Bit(c.canintf, i)}

\* C25: a receive call that returns a frame returns the frame of the lowest
\* pending receive buffer i, and afterwards buffer i's pending flag is clear
\* and the other buffer's flag is as before; so with both buffers pending
\* and no arrivals, receive returns buffer 0's frame, then buffer 1's frame,
\* then WouldBlock.
C25_ReceivedOnce ==
    [][(call = Idle /\ call'.op = "receive" /\ call'.fault = 0) =>
          LET before == PendingRx(chip)
              after == PendingRx(chip')
          IN /\ 0 \in before =>
                   /\ ret'.res = "Ok"
                   /\ ret'.val = Frame_from_bytes(chip.rxb[1])
                   /\ after = before \ {0}
             /\ before = {1} =>
                   /\ ret'.res = "Ok"
                   /\ ret'.val = Frame_from_bytes(chip.rxb[2])
                   /\ after = {}
             /\ before = {} =>
                   /\ ret'.res = "WouldBlock"
                   /\ after = {}]_vars

\* C26: a blocking transmit that finds all three transmit buffers pending
\* polls the status and nothing else, and does not return while they stay
\* pending; a bus fault in a poll ends the call with that error; a fault-free
\* poll that finds a free buffer loads and requests the frame once and the
\* call succeeds.  With the loop running and the controller completing
\* transmissions, every blocking transmit ends, and without a bus fault it
\* ends in success.
C26_BlockingTransmitEnds ==
    /\ [](call.op = "blocking_transmit" =>
            /\ ret.res \in {"Polling", "Ok", "Err"}
            /\ ret.res = "Polling" =>
                  /\ CountKind(wire, "fault") = 0
                  /\ Scopes(wire) = <<StatusScope>>
                  /\ \A i \in TxBuffers : TxPending(Snapshot, i)
            /\ ret.res = "Ok" =>
                  /\ CountKind(wire, "fault") = 0
                  /\ Len(Scopes(wire)) = 3
                  /\ \E i \in TxBuffers : Commands(wire) = {LoadCmd(i), RtsCmd(i)}
            /\ ret.res = "Err" =>
                  /\ CountKind(wire, "fault") = 1
                  /\ wire[Len(wire) - 1].k = "fault"
                  /\ ret.val = SpiError(SpiFault(call.fault)))
    /\ [][PollAgain =>
            LET hit == CountKind(wire', "fault") > 0
            IN /\ (PendingTx(chip) = TxBuffers /\ ~hit) =>
                     (ret'.res = "Polling" /\ chip' = chip)
               /\ (PendingTx(chip) # TxBuffers /\ ~hit) => ret'.res = "Ok"
               /\ hit => ret'.res = "Err"
               /\ call'.fault \in {1, 2} => hit
               /\ call'.fault = 0 => ~hit]_vars
    /\ (call.op = "blocking_transmit" /\ ret.res = "Polling")
          ~> (call.op = "blocking_transmit" /\ ret.res \in {"Ok", "Err"})

\* a blocking transmit that polled in vain, then found buffer 1 free after
\* the controller had sent its frame
C26_Witness ==
    /\ call.op = "blocking_transmit"
    /\ call.polls >= 2
    /\ call.fault = 0
    /\ ret.res = "Ok"
    /\ Commands(wire) = {LoadCmd(1), RtsCmd(1)}
    /\ PendingTx(chip) = TxBuffers
    /\ Bit(chip.canintf, 3)

====
